---- MODULE Spec2Model ----
(***************************************************************************)
(* poexam: the word tokenizer (src/words.rs) and the two spelling rules    *)
(* (src/rules/spelling.rs).                                                *)
(*                                                                         *)
(* Strings are sequences of UTF-8 bytes (integers 0..255); offsets are     *)
(* 0-based byte offsets as in the Rust code, so byte i of a string b is    *)
(* b[i + 1].  A span is a pair <<start, end>>, half open.                  *)
(***************************************************************************)
EXTENDS Integers, Sequences, FiniteSets, TLC

VARIABLES
    s,              \* WordPos.s / WordPos.bytes: the string being tokenized
    format,         \* the format argument of WordPos::new ("c" or "")
    pos,            \* WordPos.pos
    lastItem,       \* what the latest call of next() returned
    yielded,        \* every span returned so far, in order
    skipped,        \* the regions skipped as "%%" or as a conversion specifier
    ended,          \* a call of next() has returned None
    panicked,       \* a call of next() has panicked
    msgid,          \* Entry: source string
    msgstr,         \* Entry: translated string
    entry_format,   \* Entry.format
    dict_id,        \* Checker.dict_id
    dict_str,       \* Checker.dict_str
    diagnostics,    \* Checker.diagnostics, as filled by report_msg
    done            \* the rules whose check_msg has run (or panicked) on the entry

vars == <<s, format, pos, lastItem, yielded, skipped, ended, panicked,
          msgid, msgstr, entry_format, dict_id, dict_str, diagnostics, done>>

wordVars == <<s, format, pos, lastItem, yielded, skipped, ended, panicked>>
ruleVars == <<msgid, msgstr, entry_format, dict_id, dict_str, diagnostics, done>>

(***************************************************************************)
(* Bounds and inputs.                                                      *)
(***************************************************************************)
\* longest tokenized string, in code points
MaxLen == 4
\* longest string of an entry checked by a rule, in code points
MaxMsgLen == 3

None == <<>>

\* code points the tokenized strings are made of, as their UTF-8 encodings:
\* a, l, 5, -, %, space, ., e-acute (U+00E9)
WordAlphabet ==
    {<<97>>, <<108>>, <<53>>, <<45>>, <<37>>, <<32>>, <<46>>, <<195, 169>>}

\* code points the entries' strings are made of: a, e-acute, space, %
MsgAlphabet == {<<97>>, <<195, 169>>, <<32>>, <<37>>}

RECURSIVE Flatten(_)
Flatten(cps) ==
    IF cps = <<>> THEN <<>> ELSE Head(cps) \o Flatten(Tail(cps))

\* the well-formed UTF-8 strings of at most n code points over alphabet
Strings(alphabet, n) ==
    {Flatten(cps) : cps \in UNION {[1..k -> alphabet] : k \in 0..n}}

Formats == {"", "c"}

\* the strings of the unit tests of src/words.rs
StrEmpty == <<>>
StrPunct == <<32, 44, 46, 33, 63, 32>>
StrCFormat == <<37, 48, 53, 100>>
StrBasicAscii ==
    <<72, 101, 108, 108, 111, 44, 32, 119, 111, 114, 108, 100, 33, 32,
      37, 108, 108, 117, 32, 116, 101, 115, 116, 45, 119, 111, 114, 100,
      32, 52, 50, 46>>
StrUnicode ==
    <<104, 195, 169, 108, 108, 111, 44, 32, 208, 188, 208, 184, 209, 128,
      33, 32, 37, 108, 108, 100, 32, 228, 189, 160, 229, 165, 189>>
TestStrings == {StrEmpty, StrPunct, StrCFormat, StrBasicAscii, StrUnicode}

(***************************************************************************)
(* UTF-8 and character classes.                                            *)
(***************************************************************************)
At(bytes, i) == bytes[i + 1]

\* str::is_char_boundary, which indexing self.s[self.pos..] asserts
is_char_boundary(bytes, i) ==
    \/ i = 0
    \/ i = Len(bytes)
    \/ (i < Len(bytes) /\ ~(At(bytes, i) \in 128..191))

\* char::len_utf8 of the code point whose first byte is b
len_utf8(b) ==
    IF b < 128 THEN 1 ELSE IF b < 224 THEN 2 ELSE IF b < 240 THEN 3 ELSE 4

\* self.s[i..].chars().next(): the code point decoded at a boundary i
CharAt(bytes, i) ==
    LET b == At(bytes, i) IN
    CASE len_utf8(b) = 1 -> b
      [] len_utf8(b) = 2 -> (b - 192) * 64 + (At(bytes, i + 1) - 128)
      [] len_utf8(b) = 3 ->
            ((b - 224) * 64 + (At(bytes, i + 1) - 128)) * 64
                + (At(bytes, i + 2) - 128)
      [] OTHER ->
            (((b - 240) * 64 + (At(bytes, i + 1) - 128)) * 64
                + (At(bytes, i + 2) - 128)) * 64 + (At(bytes, i + 3) - 128)

\* char::is_alphanumeric, on the blocks the inputs use: Basic Latin, Latin-1,
\* the basic Cyrillic letters and the CJK unified ideographs
is_alphanumeric(c) ==
    \/ c \in 48..57 \/ c \in 65..90 \/ c \in 97..122
    \/ c \in {170, 181, 186} \/ c \in 192..214 \/ c \in 216..246
    \/ c \in 248..255
    \/ c \in {178, 179, 185, 188, 189, 190}
    \/ c \in 1040..1103 \/ c \in 19968..40959

Percent == 37
Hyphen == 45

(***************************************************************************)
(* The format specifier scanner, c_format::get_index_end_c_format.         *)
(***************************************************************************)
FlagBytes == {45, 43, 32, 35, 48}
DigitBytes == 48..57
Star == 42
Dot == 46

RECURSIVE SkipWhile(_, _, _)
SkipWhile(bytes, i, set) ==
    IF i < Len(bytes) /\ At(bytes, i) \in set
    THEN SkipWhile(bytes, i + 1, set)
    ELSE i

SkipWidth(bytes, i) ==
    IF i < Len(bytes) /\ At(bytes, i) = Star THEN i + 1
    ELSE SkipWhile(bytes, i, DigitBytes)

SkipPrecision(bytes, i) ==
    IF i < Len(bytes) /\ At(bytes, i) = Dot
    THEN SkipWidth(bytes, i + 1)
    ELSE i

\* h, hh, l, ll, L, z, j, t
SkipLength(bytes, i) ==
    LET n == Len(bytes)
        b == IF i < n THEN At(bytes, i) ELSE 0
        b2 == IF i + 1 < n THEN At(bytes, i + 1) ELSE 0
    IN  IF b \in {104, 108} THEN (IF b2 = b THEN i + 2 ELSE i + 1)
        ELSE IF b \in {76, 122, 106, 116} THEN i + 1
        ELSE i

get_index_end_c_format(bytes, i, len) ==
    LET p == SkipLength(bytes,
                 SkipPrecision(bytes,
                     SkipWidth(bytes, SkipWhile(bytes, i, FlagBytes))))
    IN  IF p < len THEN p + 1 ELSE len

(***************************************************************************)
(* WordPos::next.                                                          *)
(***************************************************************************)
\* the result of one call: the cursor it leaves, the item it returns (None
\* or a span), whether it panicked, and the regions it skipped on the way
Result(p, item, panic, skips) ==
    [pos |-> p, item |-> item, panic |-> panic, skips |-> skips]

\* match (idx_start, idx_end) after the loop
Finish(p, st, en, skips) ==
    Result(p, IF st # None /\ en # None THEN <<st[1], en[1]>> ELSE None,
           FALSE, skips)

\* variant: the hyphen test forgotten, a hyphen never extends a word
IsWordCharNoHyphen(c, st) == is_alphanumeric(c)

\* variant: the idx_start.is_some() guard forgotten, a hyphen starts a word
IsWordCharAnyHyphen(c, st) == is_alphanumeric(c) \/ c = Hyphen

\* the branch of a code point that is part of a word
IsWordChar(c, st) == is_alphanumeric(c) \/ (st # None /\ c = Hyphen)

\* variant: only the `%` itself is skipped, the scanner is never consulted
SkipToPercentOnly(bytes, p1, len) == p1

\* the cursor after a `%` met outside a word, p1 being the index after it
SkipTo(bytes, p1, len) ==
    IF p1 < len /\ At(bytes, p1) = Percent THEN p1 + 1
    ELSE get_index_end_c_format(bytes, p1, len)

RECURSIVE WordLoop(_, _, _, _, _, _)
WordLoop(bytes, skip_c_format, p, st, en, skips) ==
    LET len == Len(bytes) IN
    IF ~(p < len) THEN Finish(p, st, en, skips)
    ELSE IF skip_c_format /\ st = None /\ At(bytes, p) = Percent
    THEN LET p1 == p + 1
             literal == p1 < len /\ At(bytes, p1) = Percent
             p2 == SkipTo(bytes, p1, len)
             sk == Append(skips,
                     [from |-> p, to |-> p2,
                      kind |-> IF literal THEN "literal" ELSE "specifier"])
         IN  IF p2 >= len THEN Result(p2, None, FALSE, sk)
             ELSE WordLoop(bytes, skip_c_format, p2, st, en, sk)
    ELSE IF ~is_char_boundary(bytes, p) THEN Result(p, None, TRUE, skips)
    ELSE LET c == CharAt(bytes, p)
             len_c == len_utf8(At(bytes, p))
         IN  IF IsWordChar(c, st)
             THEN WordLoop(bytes, skip_c_format, p + len_c,
                           IF st = None THEN <<p>> ELSE st,
                           <<p + len_c>>, skips)
             ELSE IF st # None THEN Finish(p, st, en, skips)
             ELSE WordLoop(bytes, skip_c_format, p + len_c, st, en, skips)

\* variant: the format tag compared with the wrong literal
SkipCFormatWrongTag(fmt) == fmt = "c-format"

\* WordPos::new: skip_c_format
SkipCFormat(fmt) == fmt = "c"

NextItem(bytes, fmt, p) == WordLoop(bytes, SkipCFormat(fmt), p, None, None, <<>>)

\* WordPos::new(s, format).collect(), and the for loop of check_msg: the
\* spans of every call of next() up to the first None, or a panic
RECURSIVE Collect(_, _, _, _)
Collect(bytes, fmt, p, acc) ==
    LET r == NextItem(bytes, fmt, p) IN
    IF r.panic THEN [spans |-> acc, panic |-> TRUE]
    ELSE IF r.item = None THEN [spans |-> acc, panic |-> FALSE]
    ELSE Collect(bytes, fmt, r.pos, Append(acc, r.item))

Tokenize(bytes, fmt) == Collect(bytes, fmt, 0, <<>>)

(***************************************************************************)
(* The tokenizer as a state machine: one instance, fetched repeatedly.     *)
(***************************************************************************)
RuleIdle ==
    /\ msgid = <<>> /\ msgstr = <<>> /\ entry_format = ""
    /\ dict_id = None /\ dict_str = None
    /\ diagnostics = <<>> /\ done = {}

\* WordPos::new(s, format)
InitWords ==
    /\ s \in Strings(WordAlphabet, MaxLen) \cup TestStrings
    /\ format \in Formats
    /\ pos = 0
    /\ lastItem = None
    /\ yielded = <<>>
    /\ skipped = <<>>
    /\ ended = FALSE
    /\ panicked = FALSE
    /\ RuleIdle

\* variant: an instance that starts over once it has returned None
FetchRestarts ==
    /\ ~panicked
    /\ LET r == NextItem(s, format, pos) IN
        /\ pos' = IF r.item = None THEN 0 ELSE r.pos
        /\ lastItem' = r.item
        /\ yielded' = IF r.item # None THEN Append(yielded, r.item) ELSE yielded
        /\ skipped' = skipped \o r.skips
        /\ ended' = (ended \/ (~r.panic /\ r.item = None))
        /\ panicked' = r.panic
    /\ UNCHANGED <<s, format>>
    /\ UNCHANGED ruleVars

\* one call of next() on the instance
Fetch ==
    /\ ~panicked
    /\ LET r == NextItem(s, format, pos) IN
        /\ pos' = r.pos
        /\ lastItem' = r.item
        /\ yielded' = IF r.item # None THEN Append(yielded, r.item) ELSE yielded
        /\ skipped' = skipped \o r.skips
        /\ ended' = (ended \/ (~r.panic /\ r.item = None))
        /\ panicked' = r.panic
    /\ UNCHANGED <<s, format>>
    /\ UNCHANGED ruleVars

NextWords == Fetch

Spec == InitWords /\ [][NextWords]_vars

(***************************************************************************)
(* The spelling rules, SpellingIdRule and SpellingStrRule.                 *)
(***************************************************************************)
\* &target[start..end]
Slice(bytes, start, end) == SubSeq(bytes, start + 1, end)

\* dict.check(word), the dictionary being the set of the words it recognizes
DictCheck(dict, word) == word \in dict

\* a < b for two strings, as Ord for str compares them: byte by byte
RECURSIVE StrLess(_, _)
StrLess(a, b) ==
    IF b = <<>> THEN FALSE
    ELSE IF a = <<>> THEN TRUE
    ELSE IF Head(a) # Head(b) THEN Head(a) < Head(b)
    ELSE StrLess(Tail(a), Tail(b))

RECURSIVE InsertSorted(_, _)
InsertSorted(w, sorted) ==
    IF sorted = <<>> THEN <<w>>
    ELSE IF StrLess(w, Head(sorted)) THEN <<w>> \o sorted
    ELSE <<Head(sorted)>> \o InsertSorted(w, Tail(sorted))

RECURSIVE SortFrom(_, _)
SortFrom(words, sorted) ==
    IF words = <<>> THEN sorted
    ELSE SortFrom(Tail(words), InsertSorted(Head(words), sorted))

\* variant: the words left in order of first occurrence
NoSort(words) == words

\* misspelled_words.sort_unstable()
sort_unstable(words) == SortFrom(words, <<>>)

Separator == <<44, 32>>

\* misspelled_words.join(", ")
RECURSIVE Join(_)
Join(words) ==
    IF words = <<>> THEN <<>>
    ELSE IF Len(words) = 1 THEN Head(words)
    ELSE Head(words) \o Separator \o Join(Tail(words))

\* "misspelled words in source: "
PrefixSource ==
    <<109, 105, 115, 115, 112, 101, 108, 108, 101, 100, 32, 119, 111, 114,
      100, 115, 32, 105, 110, 32, 115, 111, 117, 114, 99, 101, 58, 32>>

\* "misspelled words in translation: "
PrefixTranslation ==
    <<109, 105, 115, 115, 112, 101, 108, 108, 101, 100, 32, 119, 111, 114,
      100, 115, 32, 105, 110, 32, 116, 114, 97, 110, 115, 108, 97, 116,
      105, 111, 110, 58, 32>>

\* variant: a repeated misspelled word contributes no further span
PushKnownDropped(pos_words, span) == pos_words

\* the branch of a word already in hash_words
PushKnown(pos_words, span) == Append(pos_words, span)

\* the body of the for loop, on one span
SpellStep(target, dict, span, acc) ==
    LET word == Slice(target, span[1], span[2]) IN
    IF word \in acc.hash_words
    THEN [acc EXCEPT !.pos_words = PushKnown(acc.pos_words, span)]
    ELSE IF ~DictCheck(dict, word)
    THEN [misspelled_words |-> Append(acc.misspelled_words, word),
          hash_words |-> acc.hash_words \cup {word},
          pos_words |-> Append(acc.pos_words, span)]
    ELSE acc

RECURSIVE SpellLoop(_, _, _, _)
SpellLoop(target, dict, spans, acc) ==
    IF spans = <<>> THEN acc
    ELSE SpellLoop(target, dict, Tail(spans),
                   SpellStep(target, dict, Head(spans), acc))

\* the accumulators after `if let Some(dict) = ... { for ... }`; the loop
\* panics when the tokenizer does
SpellWords(target, fmt, dict) ==
    LET empty == [misspelled_words |-> <<>>, hash_words |-> {},
                  pos_words |-> <<>>]
        tok == Tokenize(target, fmt)
    IN  IF dict = None THEN [acc |-> empty, panic |-> FALSE]
        ELSE IF tok.panic THEN [acc |-> empty, panic |-> TRUE]
        ELSE [acc |-> SpellLoop(target, dict[1], tok.spans, empty),
              panic |-> FALSE]

\* the message of a diagnostic
Message(prefix, misspelled_words) ==
    prefix \o Join(sort_unstable(misspelled_words))

\* checker.report_msg(entry, message, msgid, pos_id, msgstr, pos_str)
Report(rule, message, id, pos_id, str, pos_str) ==
    [rule |-> rule, message |-> message, msgid |-> id, pos_id |-> pos_id,
     msgstr |-> str, pos_str |-> pos_str]

\* the arguments SpellingIdRule::check_msg reports with
ReportId(acc, id, str) ==
    Report("spelling-id", Message(PrefixSource, acc.misspelled_words),
           id, acc.pos_words, str, <<>>)

\* the arguments SpellingStrRule::check_msg reports with
ReportStr(acc, id, str) ==
    Report("spelling-str", Message(PrefixTranslation, acc.misspelled_words),
           id, <<>>, str, acc.pos_words)

\* variant: the source rule consulting the translation dictionary
IdDictOther(d_id, d_str) == d_str

\* the dictionary SpellingIdRule::check_msg consults
IdDict(d_id, d_str) == d_id

\* the dictionary SpellingStrRule::check_msg consults
StrDict(d_id, d_str) == d_str

\* SpellingIdRule::check_msg: whether it panics and the reports it makes
SpellingIdRule_check_msg(d_id, d_str, fmt, id, str) ==
    LET w == SpellWords(id, fmt, IdDict(d_id, d_str)) IN
    [panic |-> w.panic,
     reports |-> IF ~w.panic /\ w.acc.misspelled_words # <<>>
                 THEN <<ReportId(w.acc, id, str)>> ELSE <<>>]

\* SpellingStrRule::check_msg: whether it panics and the reports it makes
SpellingStrRule_check_msg(d_id, d_str, fmt, id, str) ==
    LET w == SpellWords(str, fmt, StrDict(d_id, d_str)) IN
    [panic |-> w.panic,
     reports |-> IF ~w.panic /\ w.acc.misspelled_words # <<>>
                 THEN <<ReportStr(w.acc, id, str)>> ELSE <<>>]

(***************************************************************************)
(* The rules as a state machine: a checker with its two dictionaries, one  *)
(* entry, and the two rules run on it.                                     *)
(***************************************************************************)
\* the entries of the unit tests of src/rules/spelling.rs
MsgTyypo ==
    <<116, 104, 105, 115, 32, 105, 115, 32, 97, 32, 116, 121, 121, 112, 111>>
MsgFote ==
    <<99, 101, 99, 105, 32, 101, 115, 116, 32, 117, 110, 101, 32, 102, 195,
      180, 116, 101>>
MsgTested == <<116, 101, 115, 116, 101, 100>>
MsgTeste == <<116, 101, 115, 116, 195, 169>>
TestEntries == {<<MsgTyypo, MsgFote>>, <<MsgTested, MsgTeste>>}

\* the other string of an entry whose one string ranges over all strings
\* ("e-acute, a, e-acute": a word twice, and words out of sorted order)
OtherMsg == <<195, 169, 32, 97, 32, 195, 169>>

Entries ==
    LET all == Strings(MsgAlphabet, MaxMsgLen) IN
    (all \X {OtherMsg}) \cup ({OtherMsg} \X all) \cup TestEntries

\* a dictionary that recognizes nothing, and one that recognizes "a" and
\* the words of the entry of test_spelling_ok
DictNothing == {}
DictSome == {<<97>>, MsgTested, MsgTeste}
DictOptions == {None, <<DictNothing>>, <<DictSome>>}

WordsIdle ==
    /\ s = <<>> /\ format = "" /\ pos = 0 /\ lastItem = None
    /\ yielded = <<>> /\ skipped = <<>> /\ ended = FALSE

InitSpelling ==
    /\ \E e \in Entries : msgid = e[1] /\ msgstr = e[2]
    /\ entry_format \in Formats
    /\ dict_id \in DictOptions
    /\ dict_str \in DictOptions
    /\ diagnostics = <<>>
    /\ done = {}
    /\ panicked = FALSE
    /\ WordsIdle

\* SpellingIdRule::check_msg on the entry
CheckMsgId ==
    /\ ~panicked
    /\ "spelling-id" \notin done
    /\ LET r == SpellingIdRule_check_msg(dict_id, dict_str, entry_format,
                                         msgid, msgstr)
       IN  /\ diagnostics' = diagnostics \o r.reports
           /\ panicked' = r.panic
    /\ done' = done \cup {"spelling-id"}
    /\ UNCHANGED <<msgid, msgstr, entry_format, dict_id, dict_str>>
    /\ UNCHANGED <<s, format, pos, lastItem, yielded, skipped, ended>>

\* SpellingStrRule::check_msg on the entry
CheckMsgStr ==
    /\ ~panicked
    /\ "spelling-str" \notin done
    /\ LET r == SpellingStrRule_check_msg(dict_id, dict_str, entry_format,
                                          msgid, msgstr)
       IN  /\ diagnostics' = diagnostics \o r.reports
           /\ panicked' = r.panic
    /\ done' = done \cup {"spelling-str"}
    /\ UNCHANGED <<msgid, msgstr, entry_format, dict_id, dict_str>>
    /\ UNCHANGED <<s, format, pos, lastItem, yielded, skipped, ended>>

NextSpelling == CheckMsgId \/ CheckMsgStr

SpecSpelling == InitSpelling /\ [][NextSpelling]_vars

(***************************************************************************)
(* Notions the tokenizer's properties are stated with.                     *)
(***************************************************************************)
Range(seq) == {seq[i] : i \in DOMAIN seq}

IsPrefix(a, b) == Len(a) <= Len(b) /\ a = SubSeq(b, 1, Len(a))

\* the offsets at which a code point starts
Boundaries(bytes) == {i \in 0..(Len(bytes) - 1) : ~(At(bytes, i) \in 128..191)}

AlnumAt(bytes, i) == is_alphanumeric(CharAt(bytes, i))

WordCharAt(bytes, i) == AlnumAt(bytes, i) \/ CharAt(bytes, i) = Hyphen

\* every code point of [a, b) is alphanumeric or a hyphen
AllWordChars(bytes, a, b) ==
    \A k \in Boundaries(bytes) : (a <= k /\ k < b) => WordCharAt(bytes, k)

\* the maximal runs that start at an alphanumeric code point and continue
\* through alphanumeric code points and hyphens
MaximalRuns(bytes) ==
    LET B == Boundaries(bytes)
        n == Len(bytes)
    IN  {r \in B \X (B \cup {n}) :
            /\ r[1] < r[2]
            /\ AlnumAt(bytes, r[1])
            /\ AllWordChars(bytes, r[1], r[2])
            /\ (r[2] = n \/ ~WordCharAt(bytes, r[2]))
            /\ \A j \in B : (j < r[1] /\ AllWordChars(bytes, j, r[1]))
                                => ~AlnumAt(bytes, j)}

\* spans in strictly increasing order, none overlapping the next
Increasing(spans) ==
    \A i \in 1..(Len(spans) - 1) :
        spans[i][1] < spans[i + 1][1] /\ spans[i][2] <= spans[i + 1][1]

\* the "%%" literals and conversion specifiers of a string, found by a
\* left-to-right scan of its bytes that knows nothing of words
RECURSIVE SpecifierRegions(_, _)
SpecifierRegions(bytes, i) ==
    LET n == Len(bytes) IN
    IF i >= n THEN <<>>
    ELSE IF At(bytes, i) # Percent THEN SpecifierRegions(bytes, i + 1)
    ELSE LET lit == i + 1 < n /\ At(bytes, i + 1) = Percent
             e == IF lit THEN i + 2
                  ELSE get_index_end_c_format(bytes, i + 1, n)
         IN  <<[from |-> i, to |-> e,
                kind |-> IF lit THEN "literal" ELSE "specifier"]>>
                 \o SpecifierRegions(bytes, e)

\* the input ends inside a word: an alphanumeric code point after the last
\* skipped region (in format-aware mode) is followed by nothing but
\* alphanumeric code points and hyphens
TrailingWord(bytes, fmt) ==
    LET regions == IF fmt = "c" THEN Range(SpecifierRegions(bytes, 0)) ELSE {}
    IN  \E j \in Boundaries(bytes) :
            /\ \A r \in regions : r.to <= j
            /\ AlnumAt(bytes, j)
            /\ AllWordChars(bytes, j, Len(bytes))

Disjoint(span, region) == span[2] <= region.from \/ region.to <= span[1]

(***************************************************************************)
(* Properties of the tokenizer.                                            *)
(***************************************************************************)

\* C4: in format-aware mode the regions the tokenizer skips are the "%%"
\* literals and conversion specifiers of the string, in order, and no span
\* it yields overlaps any of them, also when the `%` directly follows a word.
C4_NoSpanInsideSpecifier ==
    format = "c" =>
        /\ IsPrefix(skipped, SpecifierRegions(s, 0))
        /\ \A r \in Range(SpecifierRegions(s, 0)) :
              (r.from < pos /\ ~panicked) => r \in Range(skipped)
        /\ \A sp \in Range(yielded) :
              \A r \in Range(SpecifierRegions(s, 0)) : Disjoint(sp, r)

\* a word was yielded, the specifier that directly follows it was skipped,
\* and a later word was yielded after the specifier
C4_Witness ==
    /\ format = "c"
    /\ \E r \in Range(skipped) :
          /\ r.kind = "specifier"
          /\ r.to >= r.from + 2
          /\ \E sp \in Range(yielded) : sp[2] = r.from
          /\ \E sp \in Range(yielded) : sp[1] >= r.to

\* C5: when the format tag is not "c", the spans yielded are exactly, left to
\* right, the maximal runs of alphanumeric code points and hyphens that
\* start at an alphanumeric code point; nothing is skipped as a specifier.
C5_PlainModeMaximalRuns ==
    format # "c" =>
        /\ ~panicked
        /\ skipped = <<>>
        /\ Increasing(yielded)
        /\ Range(yielded) = {r \in MaximalRuns(s) : r[2] <= pos}
        /\ (ended => pos = Len(s) /\ Range(yielded) = MaximalRuns(s))

\* "%05d" without format-awareness has yielded the single span (1, 4)
C5_Witness ==
    /\ format = ""
    /\ s = StrCFormat
    /\ ended
    /\ yielded = <<<<1, 4>>>>

\* C6: in both modes every yielded span begins at an alphanumeric code point
\* (never at a hyphen), and a span never stops in front of a hyphen or an
\* alphanumeric code point: a hyphen met inside a word extends it.
C6_HyphenNeverStartsWord ==
    \A sp \in Range(yielded) :
        /\ sp[1] \in Boundaries(s)
        /\ AlnumAt(s, sp[1])
        /\ CharAt(s, sp[1]) # Hyphen
        /\ (sp[2] < Len(s) =>
                sp[2] \in Boundaries(s) /\ ~WordCharAt(s, sp[2]))

\* a string with a leading hyphen and a hyphenated word: the hyphen at 0 was
\* skipped and the word holding a hyphen came out as one span
C6_Witness ==
    /\ Len(s) > 0 /\ At(s, 0) = Hyphen
    /\ \E sp \in Range(yielded) :
          /\ sp[1] = 1
          /\ \E k \in (sp[1] + 1)..(sp[2] - 2) : At(s, k) = Hyphen

\* C7: in format-aware mode, once the cursor has passed a `%` whose specifier
\* runs to the end of the buffer, the sequence has ended without a panic, the
\* spans yielded are those of the text before that `%`, and none of them
\* starts at or after it.
C7_TruncatedSpecifierEnds ==
    format = "c" =>
        \A r \in Range(SpecifierRegions(s, 0)) :
            (r.kind = "specifier" /\ r.to = Len(s)) =>
                /\ \A sp \in Range(yielded) : sp[2] <= r.from
                /\ (pos > r.from =>
                       /\ ended /\ ~panicked /\ lastItem = None
                       /\ pos = Len(s)
                       /\ yielded
                            = Tokenize(SubSeq(s, 1, r.from), format).spans)

\* a word was yielded, then a specifier cut short after its width (a `%`
\* and one digit, no conversion character) ended the sequence
C7_Witness ==
    /\ format = "c"
    /\ ended
    /\ yielded # <<>>
    /\ \E r \in Range(skipped) :
          /\ r.kind = "specifier" /\ r.to = Len(s)
          /\ r.to = r.from + 2
          /\ At(s, r.from + 1) \in DigitBytes

\* C8: tokenizing never panics, and every yielded span satisfies
\* 0 <= start < end <= byte length with both ends on code-point boundaries.
C8_NoPanicValidSpans ==
    /\ ~panicked
    /\ \A sp \in Range(yielded) :
          /\ 0 <= sp[1] /\ sp[1] < sp[2] /\ sp[2] <= Len(s)
          /\ is_char_boundary(s, sp[1]) /\ is_char_boundary(s, sp[2])

\* C10: the spans come in strictly increasing, non-overlapping order, at
\* most one per byte; once a fetch has returned end-of-sequence the latest
\* fetch has too; and at the end a word that runs to the end of the input
\* has been yielded, once.
C10_IncreasingFiniteNoRestart ==
    /\ Increasing(yielded)
    /\ Len(yielded) <= Len(s)
    /\ \A sp \in Range(yielded) : sp[1] < sp[2] /\ sp[2] <= pos
    /\ (ended => lastItem = None /\ pos >= Len(s))
    /\ (ended /\ TrailingWord(s, format))
          => Cardinality({i \in DOMAIN yielded : yielded[i][2] = Len(s)}) = 1

\* the last word of the unicode test string, in progress at the end of the
\* input, was yielded as the fourth span and the sequence has ended
C10_Witness ==
    /\ s = StrUnicode
    /\ format = ""
    /\ ended
    /\ Len(yielded) = 4
    /\ yielded[4] = <<21, 27>>

(***************************************************************************)
(* Notions the rules' properties are stated with.                          *)
(***************************************************************************)
Rules == {"spelling-id", "spelling-str"}

RuleTarget(rule) == IF rule = "spelling-id" THEN msgid ELSE msgstr

RuleDict(rule) == IF rule = "spelling-id" THEN dict_id ELSE dict_str

RulePrefix(rule) ==
    IF rule = "spelling-id" THEN PrefixSource ELSE PrefixTranslation

\* the spans a diagnostic carries for the rule's own string, and for the other
OwnSpans(d) == IF d.rule = "spelling-id" THEN d.pos_id ELSE d.pos_str
OtherSpans(d) == IF d.rule = "spelling-id" THEN d.pos_str ELSE d.pos_id

DiagsOf(rule) == SelectSeq(diagnostics, LAMBDA d : d.rule = rule)

\* the spans the tokenizer yields for the rule's string whose word the
\* rule's dictionary does not recognize, every occurrence, in order
UnrecognizedSpans(rule) ==
    IF RuleDict(rule) = None THEN <<>>
    ELSE SelectSeq(Tokenize(RuleTarget(rule), entry_format).spans,
                   LAMBDA sp : Slice(RuleTarget(rule), sp[1], sp[2])
                                   \notin RuleDict(rule)[1])

UnrecognizedWords(rule) ==
    {Slice(RuleTarget(rule), sp[1], sp[2]) :
        sp \in Range(UnrecognizedSpans(rule))}

\* the code points of a well-formed UTF-8 string
RECURSIVE CodePoints(_, _)
CodePoints(bytes, i) ==
    IF i >= Len(bytes) THEN <<>>
    ELSE <<CharAt(bytes, i)>> \o CodePoints(bytes, i + len_utf8(At(bytes, i)))

\* the words of a set in ascending code-point order
RECURSIVE SortedByCodePoints(_)
SortedByCodePoints(words) ==
    IF words = {} THEN <<>>
    ELSE LET m == CHOOSE x \in words :
                    \A y \in words \ {x} :
                        StrLess(CodePoints(x, 0), CodePoints(y, 0))
         IN  <<m>> \o SortedByCodePoints(words \ {m})

\* the words listed in a message body, split at each ", "
RECURSIVE Split(_, _)
Split(body, word) ==
    IF body = <<>> THEN <<word>>
    ELSE IF Len(body) >= 2 /\ SubSeq(body, 1, 2) = Separator
    THEN <<word>> \o Split(SubSeq(body, 3, Len(body)), <<>>)
    ELSE Split(Tail(body), Append(word, Head(body)))

\* the words a diagnostic's message lists after the rule's prefix
Listed(d) ==
    Split(SubSeq(d.message, Len(RulePrefix(d.rule)) + 1, Len(d.message)), <<>>)

\* strings and dictionaries the other side of an entry is varied over
\* (the empty string, and "a%" followed by e-acute)
AltStrings == {<<>>, <<97, 37, 195, 169>>}

\* what a report says apart from the two strings it quotes
Finding(d) == [message |-> d.message, pos_id |-> d.pos_id, pos_str |-> d.pos_str]

Findings(reports) == [i \in DOMAIN reports |-> Finding(reports[i])]

(***************************************************************************)
(* Properties of the spelling rules.                                       *)
(***************************************************************************)

\* C1: a rule that has been invoked on the entry has emitted exactly one
\* diagnostic if its dictionary is bound and the tokenizer yields a word of
\* its string that the dictionary does not recognize, and none otherwise.
C1_DiagnosticIffUnrecognized ==
    \A rule \in Rules :
        Len(DiagsOf(rule)) =
            IF rule \in done
               /\ RuleDict(rule) # None
               /\ \E sp \in Range(Tokenize(RuleTarget(rule), entry_format).spans) :
                     Slice(RuleTarget(rule), sp[1], sp[2]) \notin RuleDict(rule)[1]
            THEN 1 ELSE 0

\* C2: the span list of a diagnostic holds one entry for every tokenized
\* occurrence of an unrecognized word, in order of occurrence, while the
\* message lists each distinct unrecognized word once; the span list is
\* never shorter than the word list.
C2_SpansPerOccurrenceWordsOnce ==
    \A d \in Range(diagnostics) :
        /\ OwnSpans(d) = UnrecognizedSpans(d.rule)
        /\ Range(Listed(d)) = UnrecognizedWords(d.rule)
        /\ Len(Listed(d)) = Cardinality(UnrecognizedWords(d.rule))
        /\ Len(OwnSpans(d)) >= Len(Listed(d))

\* a diagnostic for a string where one misspelled word occurs twice and
\* another once: two words listed, three spans
C2_Witness ==
    \E d \in Range(diagnostics) :
        /\ Len(Listed(d)) = 2
        /\ Len(OwnSpans(d)) = 3
        /\ \E i, j \in DOMAIN OwnSpans(d) :
              /\ i < j
              /\ Slice(RuleTarget(d.rule), OwnSpans(d)[i][1], OwnSpans(d)[i][2])
                   = Slice(RuleTarget(d.rule), OwnSpans(d)[j][1], OwnSpans(d)[j][2])

\* C3: the message of a diagnostic is the rule's prefix followed by the
\* distinct unrecognized words in ascending code-point order, joined by ", ".
C3_MessageSortedJoined ==
    \A d \in Range(diagnostics) :
        d.message = RulePrefix(d.rule)
                        \o Join(SortedByCodePoints(UnrecognizedWords(d.rule)))

\* the source rule's diagnostic of test_spelling_error:
\* "misspelled words in source: a, is, this, tyypo", four spans
C3_Witness ==
    /\ msgid = MsgTyypo
    /\ \E d \in Range(diagnostics) :
          /\ d.rule = "spelling-id"
          /\ d.message = PrefixSource
                \o <<97, 44, 32, 105, 115, 44, 32, 116, 104, 105, 115, 44, 32,
                     116, 121, 121, 112, 111>>
          /\ d.pos_id = <<<<0, 4>>, <<5, 7>>, <<8, 9>>, <<10, 15>>>>

\* C9: a diagnostic carries no spans for the other string, quotes the two
\* strings of the entry, and what a rule finds is the same whatever the
\* other string is and whatever the other dictionary is.
C9_OtherSideUntouched ==
    /\ \A d \in Range(diagnostics) :
          OtherSpans(d) = <<>> /\ d.msgid = msgid /\ d.msgstr = msgstr
    /\ ("spelling-id" \in done /\ ~panicked) =>
          /\ \A alt \in AltStrings :
                Findings(SpellingIdRule_check_msg(dict_id, dict_str,
                             entry_format, msgid, alt).reports)
                    = Findings(DiagsOf("spelling-id"))
          /\ \A altDict \in DictOptions :
                Findings(SpellingIdRule_check_msg(dict_id, altDict,
                             entry_format, msgid, msgstr).reports)
                    = Findings(DiagsOf("spelling-id"))
    /\ ("spelling-str" \in done /\ ~panicked) =>
          /\ \A alt \in AltStrings :
                Findings(SpellingStrRule_check_msg(dict_id, dict_str,
                             entry_format, alt, msgstr).reports)
                    = Findings(DiagsOf("spelling-str"))
          /\ \A altDict \in DictOptions :
                Findings(SpellingStrRule_check_msg(altDict, dict_str,
                             entry_format, msgid, msgstr).reports)
                    = Findings(DiagsOf("spelling-str"))

\* both rules have reported on the entry of test_spelling_error, each with
\* its own message and spans
C9_Witness ==
    /\ msgid = MsgTyypo /\ msgstr = MsgFote
    /\ Len(diagnostics) = 2
    /\ diagnostics[1].rule = "spelling-id"
    /\ diagnostics[1].pos_id # <<>>
    /\ diagnostics[2].rule = "spelling-str"
    /\ diagnostics[2].message = PrefixTranslation
          \o <<99, 101, 99, 105, 44, 32, 101, 115, 116, 44, 32, 102, 195, 180,
               116, 101, 44, 32, 117, 110, 101>>
    /\ diagnostics[2].pos_str = <<<<0, 4>>, <<5, 8>>, <<9, 12>>, <<13, 18>>>>

====
